---- MODULE Spec2Model ----
(***************************************************************************)
(* FakturMatch (src/app.py): reconciliation of a general-ledger export     *)
(* ("K3") against two Coretax tax exports, written into a spreadsheet      *)
(* template, behind a Flask upload route.                                  *)
(*                                                                         *)
(* Four specifications share the variables below:                          *)
(*   SpecExtract  extract_no_faktur_from_description on bounded strings    *)
(*   SpecCompare  the data pipeline of compare_files (steps 3..13)         *)
(*   SpecSheet    the template clearing and row writing of compare_files   *)
(*   Spec         concurrent /upload requests over the shared directories  *)
(*                                                                         *)
(* Text is a sequence of one-character strings.  A cell of a data frame is *)
(* a record [t, v, s]: t = "str" (text s), "num" (number v), "nan" (a      *)
(* missing cell, NaN) or "none" (Python None).  Amounts are integers in    *)
(* hundredths, so that "1.234,56" is 123456.                               *)
(***************************************************************************)
EXTENDS Integers, Sequences, FiniteSets, TLC

VARIABLES
    \* SpecExtract
    desc, key, xpc,
    \* SpecCompare
    k3, coretax_1, coretax_2, has_modif, coretax_agg, merged, cpc,
    \* SpecSheet
    template, ws, frame, row_i, spc,
    \* Spec
    pc, input, template_exists, uploads, outputs, clock, read, out_path, err

extractVars == <<desc, key, xpc>>
compareVars == <<k3, coretax_1, coretax_2, has_modif, coretax_agg, merged, cpc>>
sheetVars == <<template, ws, frame, row_i, spc>>
uploadVars ==
    <<pc, input, template_exists, uploads, outputs, clock, read, out_path, err>>
vars == <<extractVars, compareVars, sheetVars, uploadVars>>

---------------------------------------------------------------------------
(* Cells *)

NoneCell == [t |-> "none", v |-> 0, s |-> <<>>]
NaNCell == [t |-> "nan", v |-> 0, s |-> <<>>]
Str(s) == [t |-> "str", v |-> 0, s |-> s]
Num(n) == [t |-> "num", v |-> n, s |-> <<>>]

\* pd.isna
IsNa(c) == c.t \in {"none", "nan"}

Whitespace == {" "}

RECURSIVE LStrip(_)
LStrip(s) == IF s # <<>> /\ Head(s) \in Whitespace THEN LStrip(Tail(s)) ELSE s

RECURSIVE RStrip(_)
RStrip(s) ==
    IF s # <<>> /\ s[Len(s)] \in Whitespace
    THEN RStrip(SubSeq(s, 1, Len(s) - 1))
    ELSE s

\* str.strip()
Strip(s) == RStrip(LStrip(s))

\* str.split(sep): the parts between the separators, one more than there
\* are separators
RECURSIVE SplitAcc(_, _, _)
SplitAcc(s, sep, cur) ==
    IF s = <<>> THEN <<cur>>
    ELSE IF Head(s) = sep THEN <<cur>> \o SplitAcc(Tail(s), sep, <<>>)
    ELSE SplitAcc(Tail(s), sep, Append(cur, Head(s)))

Split(s, sep) == SplitAcc(s, sep, <<>>)

\* str(x) / Series.astype(str) on the cells the model draws
AsStr(c) ==
    CASE c.t = "str" -> c.s
      [] c.t = "none" -> <<"N", "o", "n", "e">>
      [] c.t = "nan" -> <<"n", "a", "n">>

---------------------------------------------------------------------------
(* extract_no_faktur_from_description *)

ExtractFirstSegment(d) ==
    IF IsNa(d) THEN NoneCell
    ELSE LET parts == [i \in 1..Len(Split(Strip(AsStr(d)), "/")) |->
                          Strip(Split(Strip(AsStr(d)), "/")[i])]
         IN  IF Len(parts) >= 1 /\ parts[1] # <<>> THEN Str(parts[1]) ELSE NoneCell

extract_no_faktur_from_description(d) ==
    IF IsNa(d) THEN NoneCell
    ELSE LET s == Strip(AsStr(d))
             raw == Split(s, "/")
             parts == [i \in 1..Len(raw) |-> Strip(raw[i])]
         IN  IF Len(parts) >= 2 /\ parts[2] # <<>> THEN Str(parts[2]) ELSE NoneCell

---------------------------------------------------------------------------
(* SpecExtract: the key extractor applied to every description of at most  *)
(* MaxLen characters over Chars, and to a missing description.             *)

MaxLen == 4
Chars == {"a", "b", " ", "/"}

Texts == UNION {[1..n -> Chars] : n \in 0..MaxLen}
Descriptions == {NoneCell, NaNCell} \cup {Str(s) : s \in Texts}

ExtractIdle == desc = NoneCell /\ key = NoneCell /\ xpc = "idle"

InitExtract ==
    /\ desc \in Descriptions
    /\ key = NoneCell
    /\ xpc = "call"

ExtractKey ==
    /\ xpc = "call"
    /\ key' = extract_no_faktur_from_description(desc)
    /\ xpc' = "return"
    /\ UNCHANGED <<desc, compareVars, sheetVars, uploadVars>>

---------------------------------------------------------------------------
(* Numbers.  float() on the texts the model draws: digits with at most one *)
(* "." and an optional leading "-"; the value is kept in hundredths, and   *)
(* the texts drawn have at most two decimals.                              *)

Digits == {"0", "1", "2", "3", "4", "5", "6", "7", "8", "9"}

DigitVal(c) ==
    CASE c = "0" -> 0 [] c = "1" -> 1 [] c = "2" -> 2 [] c = "3" -> 3
      [] c = "4" -> 4 [] c = "5" -> 5 [] c = "6" -> 6 [] c = "7" -> 7
      [] c = "8" -> 8 [] c = "9" -> 9

RECURSIVE NatOf(_)
NatOf(s) == IF s = <<>> THEN 0 ELSE NatOf(SubSeq(s, 1, Len(s) - 1)) * 10 + DigitVal(s[Len(s)])

RECURSIVE Remove(_, _)
Remove(s, c) ==
    IF s = <<>> THEN <<>>
    ELSE IF Head(s) = c THEN Remove(Tail(s), c)
    ELSE <<Head(s)>> \o Remove(Tail(s), c)

\* str.replace(a, b) for one-character a and b
Replace(s, a, b) == [i \in 1..Len(s) |-> IF s[i] = a THEN b ELSE s[i]]

\* float(s): a number cell, or NaNCell where float() raises ValueError
PyFloat(s) ==
    LET neg == s # <<>> /\ Head(s) = "-"
        u == IF neg THEN Tail(s) ELSE s
        dots == {i \in 1..Len(u) : u[i] = "."}
        ok == /\ \A i \in 1..Len(u) : u[i] \in Digits \cup {"."}
              /\ Cardinality(dots) <= 1
              /\ \E i \in 1..Len(u) : u[i] \in Digits
        dot == IF dots = {} THEN Len(u) + 1 ELSE CHOOSE i \in dots : TRUE
        whole == SubSeq(u, 1, dot - 1)
        frac == SubSeq(u, dot + 1, Len(u))
        cents == IF Len(frac) = 0 THEN 0
                 ELSE IF Len(frac) = 1 THEN NatOf(frac) * 10
                 ELSE NatOf(SubSeq(frac, 1, 2))
        mag == NatOf(whole) * 100 + cents
    IN  IF ok THEN Num(IF neg THEN -mag ELSE mag) ELSE NaNCell

\* _parse_id_number
parse_id_number(x) ==
    IF IsNa(x) THEN NaNCell
    ELSE IF x.t = "num" THEN x
    ELSE LET s0 == Strip(x.s)
             s1 == Replace(Remove(Remove(s0, " "), "."), ",", ".")
             neg == s1 # <<>> /\ Head(s1) = "(" /\ s1[Len(s1)] = ")"
             s2 == IF neg THEN SubSeq(s1, 2, Len(s1) - 1) ELSE s1
             v == PyFloat(s2)
         IN  IF s0 = <<>> THEN NaNCell
             ELSE IF v.t = "num" /\ neg THEN Num(-v.v)
             ELSE v

\* pd.to_numeric(errors="coerce") of one cell
to_numeric(x) ==
    IF IsNa(x) THEN NaNCell
    ELSE IF x.t = "num" THEN x
    ELSE PyFloat(Strip(x.s))

\* Series.fillna(0) of one cell
FillZero(x) == IF IsNa(x) THEN Num(0) ELSE x

---------------------------------------------------------------------------
(* compare_files, steps 3..13: the data pipeline.  A frame is a sequence   *)
(* of rows, a row a record of cells.  The tax frames are modelled from     *)
(* line 104 on, with the key column NO_VOUCHER and the columns behind DPP, *)
(* PPN and CUSTOMER present.                                               *)

FP_DIGUNGGUNG == <<"FP Digunggung">>
FP_TIDAK_DIGUNGGUNG == <<"FP Tidak Digunggung">>
TIDAK_ADA == <<"Tidak ada di Coretax">>
Dash == <<"-">>

SeqMap(Op(_), rows) == [i \in 1..Len(rows) |-> Op(rows[i])]

\* the rows of a frame whose NO_VOUCHER equals k, in the frame's order
RECURSIVE SelectRows(_, _)
SelectRows(rows, k) ==
    IF rows = <<>> THEN <<>>
    ELSE (IF Head(rows).NO_VOUCHER = k THEN <<Head(rows)>> ELSE <<>>)
             \o SelectRows(Tail(rows), k)

RECURSIVE Concat(_)
Concat(seqs) == IF seqs = <<>> THEN <<>> ELSE Head(seqs) \o Concat(Tail(seqs))

\* lines 104-139 for one tax frame: the canonical columns of one row
Canonical(row, status) ==
    [NO_VOUCHER |-> Str(Strip(AsStr(row.NO_VOUCHER))),
     DPP |-> parse_id_number(row.DPP),
     PPN |-> parse_id_number(row.PPN),
     CUSTOMER |-> row.CUSTOMER,
     FP_STATUS |-> Str(status),
     NO_FP_MODIF |-> row.NO_FP_MODIF]

Harmonize(rows, status) == [i \in 1..Len(rows) |-> Canonical(rows[i], status)]

\* groupby(...).agg "sum": NaN is skipped, an all-NaN group sums to 0
RECURSIVE SumSkipNa(_)
SumSkipNa(cells) ==
    IF cells = <<>> THEN 0
    ELSE (IF IsNa(Head(cells)) THEN 0 ELSE Head(cells).v) + SumSkipNa(Tail(cells))

SumFirstOnly(cells) ==
    IF cells = <<>> \/ IsNa(Head(cells)) THEN 0 ELSE Head(cells).v

AggSum(cells) == SumSkipNa(cells)

\* groupby(...).agg "first": the first value that is not null
RECURSIVE FirstNotNa(_)
FirstNotNa(cells) ==
    IF cells = <<>> THEN NaNCell
    ELSE IF IsNa(Head(cells)) THEN FirstNotNa(Tail(cells))
    ELSE Head(cells)

\* join_unique: the distinct statuses, sorted, joined with "; "
join_unique(cells) ==
    LET vals == {cells[i].s : i \in {j \in 1..Len(cells) : ~IsNa(cells[j])}}
    IN  IF vals = {} THEN NoneCell
        ELSE IF vals = {FP_DIGUNGGUNG, FP_TIDAK_DIGUNGGUNG}
        THEN Str(FP_DIGUNGGUNG \o <<"; ">> \o FP_TIDAK_DIGUNGGUNG)
        ELSE Str(CHOOSE v \in vals : TRUE)

\* the keys of a frame in order of first appearance
RECURSIVE DistinctKeys(_, _)
DistinctKeys(rows, seen) ==
    IF rows = <<>> THEN <<>>
    ELSE IF Head(rows).NO_VOUCHER \in seen THEN DistinctKeys(Tail(rows), seen)
    ELSE <<Head(rows).NO_VOUCHER>>
             \o DistinctKeys(Tail(rows), seen \cup {Head(rows).NO_VOUCHER})

AggGroup(rows, k) ==
    LET grp == SelectRows(rows, k)
        Dpp(r) == r.DPP
        Ppn(r) == r.PPN
        Cust(r) == r.CUSTOMER
        Stat(r) == r.FP_STATUS
    IN  [NO_VOUCHER |-> k,
         DPP |-> Num(AggSum(SeqMap(Dpp, grp))),
         PPN |-> Num(AggSum(SeqMap(Ppn, grp))),
         CUSTOMER |-> FirstNotNa(SeqMap(Cust, grp)),
         FP_STATUS |-> join_unique(SeqMap(Stat, grp))]

\* lines 141-161: pd.concat, then groupby("NO_VOUCHER").agg(agg_map).  The
\* groups are listed by first appearance (pandas lists them by sorted key;
\* the merge that reads them is keyed).
Aggregate(c1, c2) ==
    LET combined == c1 \o c2
        keys == DistinctKeys(combined, {})
    IN  [i \in 1..Len(keys) |-> AggGroup(combined, keys[i])]

\* lines 163-165: the key column of one ledger row; astype(str) turns the
\* None of a row without a key into the text "None"
WithKey(row) ==
    [NoFakturKey |-> Str(Strip(AsStr(extract_no_faktur_from_description(row.Description))))]
        @@ row

NoTaxSide ==
    [NO_VOUCHER |-> NaNCell, DPP |-> NaNCell, PPN |-> NaNCell,
     CUSTOMER |-> NaNCell, FP_STATUS |-> NaNCell, merge_ind |-> "left_only"]

\* lines 176-184: pd.merge(how="left", indicator=True), one left row
MergeRow(row, right) ==
    LET hits == SelectRows(right, row.NoFakturKey)
    IN  IF hits = <<>> THEN <<NoTaxSide @@ row>>
        ELSE [j \in 1..Len(hits) |-> [merge_ind |-> "both"] @@ hits[j] @@ row]

LeftMerge(left, right) ==
    Concat([i \in 1..Len(left) |-> MergeRow(left[i], right)])

VarianceAddsCredit(row) ==
    LET debit == FillZero(to_numeric(row.DebitAmount))
        credit == FillZero(to_numeric(row.CreditAmount))
        dpp == FillZero(to_numeric(row.DPP))
        ppn == FillZero(to_numeric(row.PPN))
    IN  [DebitAmount |-> debit, CreditAmount |-> credit,
         K3_NET |-> Num(debit.v + credit.v), DPP |-> dpp, PPN |-> ppn,
         Difference |-> Num((debit.v + credit.v) - (dpp.v + ppn.v))] @@ row

\* lines 186-193
Variance(row) ==
    LET debit == FillZero(to_numeric(row.DebitAmount))
        credit == FillZero(to_numeric(row.CreditAmount))
        dpp == FillZero(to_numeric(row.DPP))
        ppn == FillZero(to_numeric(row.PPN))
    IN  [DebitAmount |-> debit, CreditAmount |-> credit,
         K3_NET |-> Num(debit.v - credit.v), DPP |-> dpp, PPN |-> ppn,
         Difference |-> Num((debit.v - credit.v) - (dpp.v + ppn.v))] @@ row

OverrideCustomerOnly(row) ==
    [Keterangan |-> row.FP_STATUS,
     Customer |-> IF row.merge_ind # "both" THEN NoneCell ELSE row.CUSTOMER] @@ row

\* lines 195-200
Override(row) ==
    [Keterangan |-> IF row.merge_ind # "both" THEN Str(TIDAK_ADA) ELSE row.FP_STATUS,
     Customer |-> IF row.merge_ind # "both" THEN NoneCell ELSE row.CUSTOMER] @@ row

\* lines 211-223: the second merge, against the rows of coretax_2 themselves
ModifRow(row, right) ==
    LET hits == SelectRows(right, row.NoFakturKey)
    IN  IF hits = <<>> THEN <<[NO_FP_MODIF |-> NaNCell] @@ row>>
        ELSE [j \in 1..Len(hits) |-> [NO_FP_MODIF |-> hits[j].NO_FP_MODIF] @@ row]

MergeModif(rows, c2, present) ==
    IF present
    THEN Concat([i \in 1..Len(rows) |-> ModifRow(rows[i], c2)])
    ELSE [i \in 1..Len(rows) |-> [NO_FP_MODIF |-> NoneCell] @@ rows[i]]

CellColumns ==
    {"AccountNo", "AccountName", "Date", "VoucherCategory", "VoucherNo",
     "Description", "DebitAmount", "CreditAmount", "Direction", "Balance",
     "NoFakturKey", "NO_VOUCHER", "DPP", "PPN", "CUSTOMER", "FP_STATUS",
     "K3_NET", "Difference", "Keterangan", "Customer", "NO_FP_MODIF"}

\* lines 225-230: merged.fillna("-"); the indicator column is text by then
FillNa(row) ==
    [c \in DOMAIN row |->
        IF c \in CellColumns /\ IsNa(row[c]) THEN Str(Dash) ELSE row[c]]

---------------------------------------------------------------------------
(* SpecCompare: compare_files from the frames as read to the frame handed  *)
(* to the template writer.                                                 *)

MaxLedger == 2
MaxRows1 == 1
MaxRows2 == 2

LedgerRow(no, description, debit, credit) ==
    [AccountNo |-> Str(<<no>>), AccountName |-> Str(<<"P", "P", "N">>),
     Date |-> Str(<<"d", no>>), VoucherCategory |-> NaNCell,
     VoucherNo |-> Str(<<"V", no>>), Description |-> description,
     DebitAmount |-> debit, CreditAmount |-> credit,
     Direction |-> Str(<<"D">>), Balance |-> Num(0)]

\* ledger rows: a key that the tax exports hold, a description without "/",
\* another key, an empty second segment, a missing description
K3Rows ==
    {LedgerRow("1", Str(<<"I", "/", "A", "1", "/", "x">>), Num(1000000), Num(0)),
     LedgerRow("2", Str(<<"n", "o">>), Str(<<"x">>), Num(100)),
     LedgerRow("3", Str(<<"I", "/", " ", "A", "2">>), Num(500), NaNCell),
     LedgerRow("4", Str(<<"I", "/", " ", "/", "x">>), NaNCell, Num(250)),
     LedgerRow("5", NaNCell, Num(330), Num(30))}

TaxRow(voucher, dpp, ppn, customer, modif) ==
    [NO_VOUCHER |-> voucher, DPP |-> dpp, PPN |-> ppn, CUSTOMER |-> customer,
     NO_FP_MODIF |-> modif]

\* rows of the export "FP Digunggung": amounts as numbers; a key with a
\* leading blank that reads "None" once stripped
TaxRows1 ==
    {TaxRow(Str(<<"A", "1">>), Num(900000), Num(100000), Str(<<"X">>), NaNCell),
     TaxRow(Str(<<" ", "N", "o", "n", "e">>), Num(700), Num(100), Str(<<"Z">>), NaNCell)}

\* rows of the export "FP Tidak Digunggung": amounts as Indonesian-format
\* text, unparseable and missing; keys with surrounding blanks
TaxRows2 ==
    {TaxRow(Str(<<" ", "A", "1", " ">>), Str(<<"1", ".", "2", "3", "4", ",", "5", "6">>),
            Str(<<"x">>), NaNCell, Str(<<"M", "2">>)),
     TaxRow(Str(<<"A", "2">>), NaNCell, Str(<<"(", "3", "0", ")">>), Str(<<"Y">>), NaNCell)}

SeqsUpTo(S, n) == UNION {[1..m -> S] : m \in 0..n}

CompareIdle ==
    /\ k3 = <<>> /\ coretax_1 = <<>> /\ coretax_2 = <<>> /\ has_modif = FALSE
    /\ coretax_agg = <<>> /\ merged = <<>> /\ cpc = "idle"

\* lines 85-102 have read the three files; both tax frames hold NO_VOUCHER
InitCompare ==
    /\ k3 \in SeqsUpTo(K3Rows, MaxLedger)
    /\ coretax_1 \in SeqsUpTo(TaxRows1, MaxRows1)
    /\ coretax_2 \in SeqsUpTo(TaxRows2, MaxRows2)
    /\ has_modif \in BOOLEAN
    /\ coretax_agg = <<>>
    /\ merged = <<>>
    /\ cpc = "read"

\* lines 104-139
HarmonizeStep ==
    /\ cpc = "read"
    /\ coretax_1' = Harmonize(coretax_1, FP_DIGUNGGUNG)
    /\ coretax_2' = Harmonize(coretax_2, FP_TIDAK_DIGUNGGUNG)
    /\ cpc' = "harmonized"
    /\ UNCHANGED <<k3, has_modif, coretax_agg, merged, extractVars, sheetVars, uploadVars>>

\* lines 141-161
AggregateStep ==
    /\ cpc = "harmonized"
    /\ coretax_agg' = Aggregate(coretax_1, coretax_2)
    /\ cpc' = "aggregated"
    /\ UNCHANGED <<k3, coretax_1, coretax_2, has_modif, merged, extractVars, sheetVars, uploadVars>>

\* lines 163-184
MergeStep ==
    /\ cpc = "aggregated"
    /\ k3' = [i \in 1..Len(k3) |-> WithKey(k3[i])]
    /\ merged' = LeftMerge(k3', coretax_agg)
    /\ cpc' = "merged"
    /\ UNCHANGED <<coretax_1, coretax_2, has_modif, coretax_agg, extractVars, sheetVars, uploadVars>>

\* lines 186-200
VarianceStep ==
    /\ cpc = "merged"
    /\ merged' = [i \in 1..Len(merged) |-> Override(Variance(merged[i]))]
    /\ cpc' = "varied"
    /\ UNCHANGED <<k3, coretax_1, coretax_2, has_modif, coretax_agg, extractVars, sheetVars, uploadVars>>

\* lines 211-230: the frame that the template writer receives
FinishStep ==
    /\ cpc = "varied"
    /\ merged' = LET m == MergeModif(merged, coretax_2, has_modif)
                 IN  [i \in 1..Len(m) |-> FillNa(m[i])]
    /\ cpc' = "done"
    /\ UNCHANGED <<k3, coretax_1, coretax_2, has_modif, coretax_agg, extractVars, sheetVars, uploadVars>>

NextCompare ==
    \/ HarmonizeStep
    \/ AggregateStep
    \/ MergeStep
    \/ VarianceStep
    \/ FinishStep

\* steps 3..13 as one function of the frames read
CompareFrame(ledger, c1, c2, present) ==
    LET h1 == Harmonize(c1, FP_DIGUNGGUNG)
        h2 == Harmonize(c2, FP_TIDAK_DIGUNGGUNG)
        keyed == [i \in 1..Len(ledger) |-> WithKey(ledger[i])]
        joined == LeftMerge(keyed, Aggregate(h1, h2))
        varied == [i \in 1..Len(joined) |-> Override(Variance(joined[i]))]
        m == MergeModif(varied, h2, present)
    IN  [i \in 1..Len(m) |-> FillNa(m[i])]

---------------------------------------------------------------------------
(* compare_files, step 14: the template sheet.  A sheet is a record        *)
(* [max_row, cells]; cells[r][c] is the value of ws.cell(r, c), NoneCell   *)
(* when the cell is empty.  Rows above max_row hold no cells.              *)

start_row == 5
LastCol == 18
MaxTemplateData == 2
MaxFrame == 2

\* one column to the right of the written range
SheetCols == LastCol + 1
GridRows == start_row - 1 + MaxTemplateData + MaxFrame + 1

Stale == Str(<<"o", "l", "d">>)
Heading(c) == IF c <= LastCol THEN Str(<<"H">>) ELSE NoneCell

EmptyRow == [c \in 1..SheetCols |-> NoneCell]

\* a data row as a template may hold it: empty, filled with an earlier
\* report, or with a value in column 11 or right of column 18 only
RowPatterns ==
    {EmptyRow,
     [c \in 1..SheetCols |-> Stale],
     [c \in 1..SheetCols |-> IF c = 11 THEN Stale ELSE NoneCell],
     [c \in 1..SheetCols |-> IF c = SheetCols THEN Stale ELSE NoneCell]}

Templates ==
    UNION {
        {[max_row |-> start_row - 1 + t,
          cells |-> [r \in 1..GridRows |->
                        IF r < start_row THEN [c \in 1..SheetCols |-> Heading(c)]
                        ELSE IF r < start_row + t THEN data[r - start_row + 1]
                        ELSE EmptyRow]] :
            data \in [1..t -> RowPatterns]} :
        t \in 0..MaxTemplateData}

ClearThroughCol17(w) ==
    [w EXCEPT !.cells =
        [r \in 1..GridRows |->
            IF r >= start_row /\ r <= w.max_row
            THEN [c \in 1..SheetCols |-> IF c < LastCol THEN NoneCell ELSE w.cells[r][c]]
            ELSE w.cells[r]]]

\* lines 239-243: rows start_row..max_row, columns 1..18
ClearCells(w) ==
    [w EXCEPT !.cells =
        [r \in 1..GridRows |->
            IF r >= start_row /\ r <= w.max_row
            THEN [c \in 1..SheetCols |-> IF c <= LastCol THEN NoneCell ELSE w.cells[r][c]]
            ELSE w.cells[r]]]

\* lines 246-268: one iteration of the loop, for frame row `row` at index i
\* (from 0)
WriteCells(w, i, row) ==
    LET r == start_row + i
    IN  [max_row |-> IF r > w.max_row THEN r ELSE w.max_row,
         cells |-> [w.cells EXCEPT ![r] =
            [c \in 1..SheetCols |->
                CASE c = 1 -> row.AccountNo
                  [] c = 2 -> row.AccountName
                  [] c = 3 -> row.Date
                  [] c = 4 -> row.VoucherCategory
                  [] c = 5 -> row.VoucherNo
                  [] c = 6 -> row.Description
                  [] c = 7 -> row.DebitAmount
                  [] c = 8 -> row.CreditAmount
                  [] c = 9 -> row.Direction
                  [] c = 10 -> row.Balance
                  [] c = 12 -> row.NO_VOUCHER
                  [] c = 13 -> row.NO_FP_MODIF
                  [] c = 14 -> row.DPP
                  [] c = 15 -> row.PPN
                  [] c = 16 -> row.Difference
                  [] c = 17 -> row.Customer
                  [] c = 18 -> row.Keterangan
                  [] OTHER -> w.cells[r][c]]]]

---------------------------------------------------------------------------
(* SpecSheet: load_workbook, the clearing loop, the writing loop.          *)

SheetLedgers == SeqsUpTo({r \in K3Rows : r.AccountNo.s \in {<<"1">>, <<"2">>}}, MaxFrame)
SheetTax1 == {<<>>, <<CHOOSE x \in TaxRows1 : x.NO_VOUCHER.s = <<"A", "1">>>>}

\* frames that steps 3..13 produce
Frames == {CompareFrame(l, c1, <<>>, FALSE) : l \in SheetLedgers, c1 \in SheetTax1}

SheetIdle ==
    /\ template = [max_row |-> 0, cells |-> <<>>]
    /\ ws = template /\ frame = <<>> /\ row_i = 0 /\ spc = "idle"

\* lines 236-237
InitSheet ==
    /\ template \in Templates
    /\ ws = template
    /\ frame \in Frames
    /\ row_i = 0
    /\ spc = "loaded"

\* lines 239-243
ClearRows ==
    /\ spc = "loaded"
    /\ ws' = ClearCells(ws)
    /\ spc' = "writing"
    /\ UNCHANGED <<template, frame, row_i, extractVars, compareVars, uploadVars>>

\* lines 245-268: one iteration
WriteRow ==
    /\ spc = "writing"
    /\ row_i < Len(frame)
    /\ ws' = WriteCells(ws, row_i, frame[row_i + 1])
    /\ row_i' = row_i + 1
    /\ UNCHANGED <<template, frame, spc, extractVars, compareVars, uploadVars>>

\* the loop of line 245 ends
WriteEnd ==
    /\ spc = "writing"
    /\ row_i = Len(frame)
    /\ spc' = "written"
    /\ UNCHANGED <<template, ws, frame, row_i, extractVars, compareVars, uploadVars>>

NextSheet == ClearRows \/ WriteRow \/ WriteEnd

---------------------------------------------------------------------------
(* Spec: /upload requests served concurrently (app.run serves each request *)
(* on a thread of its own), /clear_outputs, and the clock that names the   *)
(* output files.  The upload folder and the output folder are shared.      *)
(*                                                                         *)
(* A file name is a record [stem, ext], ext = "" when the name has no ".". *)
(* An uploaded file is a record [owner, has_key]: the request that sent it *)
(* and whether it holds the key column NO_VOUCHER / DOC_NO.  An output     *)
(* file is named by the second of its time stamp and holds the number of   *)
(* the request whose report it is, 0 when there is no such file.  The      *)
(* path that compare_files returns is <<name>>, <<>> before it returns.    *)

MaxClock == 1

\* two requests in flight at once
Reqs == {1, 2}
Slots == 1..3
Stamps == 0..MaxClock
NoPath == <<>>

ALLOWED_EXTENSIONS == {"xls", "xlsx"}

Lower(e) == CASE e = "XLSX" -> "xlsx" [] e = "XLS" -> "xls" [] OTHER -> e

allowed_file(f) == f.ext # "" /\ Lower(f.ext) \in ALLOWED_EXTENSIONS

File(stem, ext) == [stem |-> stem, ext |-> ext]

\* the three file names of a request (werkzeug's secure_filename leaves the
\* names drawn here as they are) and the tax export, if any, that lacks the
\* key column
RequestInputs ==
    {[names |-> <<File("k3", "xlsx"), File("ct1", "XLSX"), File("ct2", "xlsx")>>,
      schema |-> "ok"],
     [names |-> <<File("k3", "xlsx"), File("a", "xls"), File("ct2", "xlsx")>>,
      schema |-> "no_key_1"],
     [names |-> <<File("k3", "xlsx"), File("ct1", "XLSX"), File("ct2", "xlsx")>>,
      schema |-> "no_key_2"],
     [names |-> <<File("k3", "xlsx"), File("ct1", "csv"), File("ct2", "xlsx")>>,
      schema |-> "ok"]}

FileNames == UNION {{i.names[s] : s \in Slots} : i \in RequestInputs}

Absent == [owner |-> 0, has_key |-> FALSE]

Sent(r, s) ==
    [owner |-> r,
     has_key |-> ~(  (s = 2 /\ input[r].schema = "no_key_1")
                  \/ (s = 3 /\ input[r].schema = "no_key_2"))]

ERR_UPLOAD_MISSING == "FileNotFoundError: uploaded file"
ERR_KEY_1 == "Coretax Digunggung: kolom DOC_NO / NO VOUCHER tidak ditemukan."
ERR_KEY_2 == "Coretax Tidak Digunggung: kolom DOC_NO / NO VOUCHER tidak ditemukan."
ERR_TEMPLATE == "Draft Output.xlsx tidak ditemukan. Taruh file itu 1 folder dengan app.py"

UploadIdle ==
    /\ pc = <<>> /\ input = <<>> /\ template_exists = FALSE /\ uploads = <<>>
    /\ outputs = <<>> /\ clock = 0 /\ read = <<>> /\ out_path = <<>> /\ err = <<>>

Init ==
    /\ pc = [r \in Reqs |-> <<"start", 0>>]
    /\ input \in [Reqs -> RequestInputs]
    /\ template_exists \in BOOLEAN
    /\ uploads = [f \in FileNames |-> Absent]
    /\ outputs = [t \in Stamps |-> 0]
    /\ clock = 0
    /\ read = [r \in Reqs |-> [s \in Slots |-> Absent]]
    /\ out_path = [r \in Reqs |-> NoPath]
    /\ err = [r \in Reqs |-> ""]

\* upload_file, lines 298-320: the checks of the request, then
\* FileStorage.save of the ledger file
Start(r) ==
    /\ pc[r] = <<"start", 0>>
    /\ IF \A s \in Slots : allowed_file(input[r].names[s])
       THEN /\ uploads' = [uploads EXCEPT ![input[r].names[1]] = Sent(r, 1)]
            /\ pc' = [pc EXCEPT ![r] = <<"save", 2>>]
       ELSE /\ pc' = [pc EXCEPT ![r] = <<"rejected", 0>>]
            /\ UNCHANGED uploads
    /\ UNCHANGED <<input, template_exists, outputs, clock, read, out_path, err>>
    /\ UNCHANGED <<extractVars, compareVars, sheetVars>>

\* upload_file, lines 321-322: FileStorage.save of a tax export
SaveUpload(r, s) ==
    /\ pc[r] = <<"save", s>>
    /\ uploads' = [uploads EXCEPT ![input[r].names[s]] = Sent(r, s)]
    /\ pc' = [pc EXCEPT ![r] = IF s < 3 THEN <<"save", s + 1>> ELSE <<"read", 1>>]
    /\ UNCHANGED <<input, template_exists, outputs, clock, read, out_path, err>>
    /\ UNCHANGED <<extractVars, compareVars, sheetVars>>

\* compare_files, lines 85-87: pd.read_excel of one of the three paths
ReadUpload(r, s) ==
    /\ pc[r] = <<"read", s>>
    /\ IF uploads[input[r].names[s]] = Absent
       THEN /\ pc' = [pc EXCEPT ![r] = <<"error", 0>>]
            /\ err' = [err EXCEPT ![r] = ERR_UPLOAD_MISSING]
            /\ UNCHANGED read
       ELSE /\ read' = [read EXCEPT ![r][s] = uploads[input[r].names[s]]]
            /\ pc' = [pc EXCEPT ![r] = IF s < 3 THEN <<"read", s + 1>> ELSE <<"compare", 0>>]
            /\ UNCHANGED err
    /\ UNCHANGED <<input, template_exists, uploads, outputs, clock, out_path>>
    /\ UNCHANGED <<extractVars, compareVars, sheetVars>>

\* compare_files, line 271: the file name holds the time to the second
out_name(now) == now

\* the error that compare_files raises on what it has read, "" if none:
\* lines 99-102, then lines 233-234
Raised(r) ==
    IF ~read[r][2].has_key THEN ERR_KEY_1
    ELSE IF ~read[r][3].has_key THEN ERR_KEY_2
    ELSE IF ~template_exists THEN ERR_TEMPLATE
    ELSE ""

SaveThenCheck(r) ==
    /\ pc[r] = <<"compare", 0>>
    /\ outputs' = [outputs EXCEPT ![out_name(clock)] = r]
    /\ out_path' = [out_path EXCEPT ![r] = <<out_name(clock)>>]
    /\ IF Raised(r) # ""
       THEN /\ pc' = [pc EXCEPT ![r] = <<"error", 0>>]
            /\ err' = [err EXCEPT ![r] = Raised(r)]
       ELSE /\ pc' = [pc EXCEPT ![r] = <<"cleanup", 0>>]
            /\ UNCHANGED err
    /\ UNCHANGED <<input, template_exists, uploads, clock, read>>
    /\ UNCHANGED <<extractVars, compareVars, sheetVars>>

\* compare_files, lines 89-274, on the frames read: the key-column checks
\* of lines 99-102, the pipeline (SpecCompare), the template check of lines
\* 233-234, the sheet written in memory (SpecSheet), none of which touches
\* a shared folder, and then wb.save of lines 270-273, which creates the
\* output file or replaces it
CompareAndSave(r) ==
    /\ pc[r] = <<"compare", 0>>
    /\ IF Raised(r) # ""
       THEN /\ pc' = [pc EXCEPT ![r] = <<"error", 0>>]
            /\ err' = [err EXCEPT ![r] = Raised(r)]
            /\ UNCHANGED <<outputs, out_path>>
       ELSE /\ outputs' = [outputs EXCEPT ![out_name(clock)] = r]
            /\ out_path' = [out_path EXCEPT ![r] = <<out_name(clock)>>]
            /\ pc' = [pc EXCEPT ![r] = <<"cleanup", 0>>]
            /\ UNCHANGED err
    /\ UNCHANGED <<input, template_exists, uploads, clock, read>>
    /\ UNCHANGED <<extractVars, compareVars, sheetVars>>

\* upload_file, line 332: delete_all_uploaded_files (lines 390-401) removes
\* every file of the upload folder; then the redirect of line 335
Cleanup(r) ==
    /\ pc[r] = <<"cleanup", 0>>
    /\ uploads' = [f \in FileNames |-> Absent]
    /\ pc' = [pc EXCEPT ![r] = <<"done", 0>>]
    /\ UNCHANGED <<input, template_exists, outputs, clock, read, out_path, err>>
    /\ UNCHANGED <<extractVars, compareVars, sheetVars>>

\* clear_outputs, lines 384-388: delete_output_files (lines 277-288)
ClearOutputs ==
    /\ \E t \in Stamps : outputs[t] # 0
    /\ outputs' = [t \in Stamps |-> 0]
    /\ UNCHANGED <<pc, input, template_exists, uploads, clock, read, out_path, err>>
    /\ UNCHANGED <<extractVars, compareVars, sheetVars>>

\* datetime.now() moves on to the next second
Tick ==
    /\ clock < MaxClock
    /\ clock' = clock + 1
    /\ UNCHANGED <<pc, input, template_exists, uploads, outputs, read, out_path, err>>
    /\ UNCHANGED <<extractVars, compareVars, sheetVars>>

Next ==
    \/ \E r \in Reqs : Start(r)
    \/ \E r \in Reqs : \E s \in 2..3 : SaveUpload(r, s)
    \/ \E r \in Reqs : \E s \in Slots : ReadUpload(r, s)
    \/ \E r \in Reqs : CompareAndSave(r)
    \/ \E r \in Reqs : Cleanup(r)
    \/ ClearOutputs
    \/ Tick

---------------------------------------------------------------------------
(* The specifications *)

InitRequests == Init /\ ExtractIdle /\ CompareIdle /\ SheetIdle
InitExtractOnly == InitExtract /\ CompareIdle /\ SheetIdle /\ UploadIdle
InitCompareOnly == InitCompare /\ ExtractIdle /\ SheetIdle /\ UploadIdle
InitSheetOnly == InitSheet /\ ExtractIdle /\ CompareIdle /\ UploadIdle

Spec == InitRequests /\ [][Next]_vars

SpecExtract == InitExtractOnly /\ [][ExtractKey]_vars

SpecCompare == InitCompareOnly /\ [][NextCompare]_vars

SpecSheet == InitSheetOnly /\ [][NextSheet]_vars

---------------------------------------------------------------------------
(* Properties of the key extractor (SpecExtract) *)

MinOf(S) == CHOOSE i \in S : \A j \in S : i <= j
MaxOf(S) == CHOOSE i \in S : \A j \in S : i >= j

\* the text between the first "/" and the next one (or the end), without
\* the blanks around it
SecondSegment(s) ==
    LET slashes == {i \in 1..Len(s) : s[i] = "/"}
        first == MinOf(slashes)
        later == {i \in slashes : i > first}
        stop == IF later = {} THEN Len(s) + 1 ELSE MinOf(later)
        seg == SubSeq(s, first + 1, stop - 1)
        inked == {i \in 1..Len(seg) : seg[i] \notin Whitespace}
    IN  IF inked = {} THEN <<>> ELSE SubSeq(seg, MinOf(inked), MaxOf(inked))

ExpectedKey(d) ==
    IF d.t # "str" THEN NoneCell
    ELSE IF \A i \in 1..Len(d.s) : d.s[i] # "/" THEN NoneCell
    ELSE IF SecondSegment(d.s) = <<>> THEN NoneCell
    ELSE Str(SecondSegment(d.s))

\* C6: for every description, extract_no_faktur_from_description returns
\* the whitespace-trimmed second "/"-delimited segment when there are at
\* least two segments and that segment is not empty, and null otherwise; a
\* null description gives null; "INV/F-001/2024" gives "F-001" and
\* "no-slash-here" gives null.
C6_SecondSegment ==
    /\ xpc = "return" => key = ExpectedKey(desc)
    /\ extract_no_faktur_from_description(
           Str(<<"I", "N", "V", "/", "F", "-", "0", "0", "1", "/", "2", "0", "2", "4">>))
         = Str(<<"F", "-", "0", "0", "1">>)
    /\ extract_no_faktur_from_description(
           Str(<<"n", "o", "-", "s", "l", "a", "s", "h", "-", "h", "e", "r", "e">>))
         = NoneCell

C6_Witness ==
    /\ xpc = "return"
    /\ desc = Str(<<"a", "/", " ", "b">>)
    /\ key = Str(<<"b">>)

---------------------------------------------------------------------------
(* Properties of the pipeline (SpecCompare) *)

LedgerColumns ==
    {"AccountNo", "AccountName", "Date", "VoucherCategory", "VoucherNo",
     "Description", "Direction", "Balance"}

Shown(c) == IF IsNa(c) THEN Str(Dash) ELSE c

\* the ledger row that a merged row came from (the ledger rows drawn differ
\* in their account number)
SrcRow(m) == CHOOSE r \in K3Rows : r.AccountNo = m.AccountNo

\* C1: the merged sequence written to the report has one row per ledger
\* row, in ledger order: as many rows as the ledger, the i-th carrying the
\* ledger fields of the i-th ledger row.
C1_OneRowPerLedgerRow ==
    cpc = "done" =>
        /\ Len(merged) = Len(k3)
        /\ \A i \in 1..Len(k3) :
              \A c \in LedgerColumns : merged[i][c] = Shown(k3[i][c])

RECURSIVE SumIdx(_, _, _)
SumIdx(rows, S, col) ==
    IF S = {} THEN 0
    ELSE LET i == CHOOSE j \in S : TRUE
         IN  (IF IsNa(rows[i][col]) THEN 0 ELSE rows[i][col].v)
                 + SumIdx(rows, S \ {i}, col)

\* the total of column col over the canonical rows of both exports with key k
TaxTotal(k, col) ==
    LET all == coretax_1 \o coretax_2
    IN  SumIdx(all, {i \in 1..Len(all) : all[i].NO_VOUCHER = k}, col)

AmountOrZero(c) == IF c.t = "num" THEN c.v ELSE 0

\* C2: for every merged row, Difference = (Debit Amount - Credit Amount) -
\* (DPP + PPN): a non-numeric or missing debit or credit counts as zero, DPP
\* and PPN are the totals of the matched tax record and zero for an
\* unmatched row; nothing is rounded.
C2_Difference ==
    cpc \in {"varied", "done"} =>
        \A i \in 1..Len(merged) :
            LET m == merged[i]
                src == SrcRow(m)
                net == AmountOrZero(src.DebitAmount) - AmountOrZero(src.CreditAmount)
                dpp == TaxTotal(m.NoFakturKey, "DPP")
                ppn == TaxTotal(m.NoFakturKey, "PPN")
            IN  /\ m.Difference = Num(net - (dpp + ppn))
                /\ m.DPP = Num(dpp)
                /\ m.PPN = Num(ppn)

C2_Witness ==
    /\ cpc = "done"
    /\ \E i \in 1..Len(merged) :
          /\ merged[i].DebitAmount = Num(1000000)
          /\ merged[i].CreditAmount = Num(0)
          /\ merged[i].DPP = Num(900000)
          /\ merged[i].PPN = Num(100000)
          /\ merged[i].Difference = Num(0)
    /\ \E i \in 1..Len(merged) :
          /\ SrcRow(merged[i]).DebitAmount = Str(<<"x">>)
          /\ merged[i].merge_ind = "left_only"
          /\ merged[i].Difference = Num(-100)

Unmatched(m) == \A j \in 1..Len(coretax_agg) : coretax_agg[j].NO_VOUCHER # m.NoFakturKey
AggOf(m) == coretax_agg[CHOOSE j \in 1..Len(coretax_agg) :
                            coretax_agg[j].NO_VOUCHER = m.NoFakturKey]

\* C3, as claimed: every unmatched merged record handed to the report
\* projection has a null counterparty and the status "Tidak ada di Coretax";
\* every matched record keeps the aggregated record's counterparty and
\* status.
C3_UnmatchedNull ==
    cpc = "done" =>
        \A i \in 1..Len(merged) :
            IF Unmatched(merged[i])
            THEN /\ IsNa(merged[i].Customer)
                 /\ merged[i].Keterangan = Str(TIDAK_ADA)
            ELSE /\ merged[i].Customer = AggOf(merged[i]).CUSTOMER
                 /\ merged[i].Keterangan = AggOf(merged[i]).FP_STATUS

\* C3, amended: after the override of lines 195-200 every unmatched record
\* has a null counterparty and the status "Tidak ada di Coretax"; the
\* fillna("-") of line 230 then replaces every null, so an unmatched record
\* handed to the report projection has the counterparty "-" and the status
\* "Tidak ada di Coretax", and a matched record has the aggregated record's
\* status and its counterparty, "-" when that is null.
C3_UnmatchedPlaceholder ==
    /\ cpc = "varied" =>
          \A i \in 1..Len(merged) :
              IF Unmatched(merged[i])
              THEN /\ IsNa(merged[i].Customer)
                   /\ merged[i].Keterangan = Str(TIDAK_ADA)
              ELSE /\ merged[i].Customer = AggOf(merged[i]).CUSTOMER
                   /\ merged[i].Keterangan = AggOf(merged[i]).FP_STATUS
    /\ cpc = "done" =>
          \A i \in 1..Len(merged) :
              IF Unmatched(merged[i])
              THEN /\ merged[i].Customer = Str(Dash)
                   /\ merged[i].Keterangan = Str(TIDAK_ADA)
              ELSE /\ merged[i].Customer = Shown(AggOf(merged[i]).CUSTOMER)
                   /\ merged[i].Keterangan = AggOf(merged[i]).FP_STATUS

C3_Witness ==
    /\ cpc = "done"
    /\ \E i \in 1..Len(merged) :
          /\ Unmatched(merged[i])
          /\ merged[i].Customer = Str(Dash)
          /\ merged[i].Keterangan = Str(TIDAK_ADA)
    /\ \E i \in 1..Len(merged) :
          /\ ~Unmatched(merged[i])
          /\ merged[i].Customer = Str(<<"X">>)
          /\ merged[i].Keterangan = Str(FP_DIGUNGGUNG \o <<"; ">> \o FP_TIDAK_DIGUNGGUNG)

\* C4: a ledger row with no extractable key (null description, no "/",
\* empty second segment) is reported as unmatched, with null tax-side
\* fields and the not-found status, whatever the tax exports hold; it is
\* never joined to an aggregated tax record.
C4_NoKeyUnmatched ==
    cpc \in {"merged", "varied", "done"} =>
        \A i \in 1..Len(merged) :
            extract_no_faktur_from_description(SrcRow(merged[i]).Description) = NoneCell
                => /\ merged[i].merge_ind = "left_only"
                   /\ merged[i].NO_VOUCHER \in {NaNCell, Str(Dash)}
                   /\ merged[i].CUSTOMER \in {NaNCell, Str(Dash)}
                   /\ cpc # "merged" => merged[i].Keterangan = Str(TIDAK_ADA)

\* C5: aggregation emits exactly one record per distinct key over the rows
\* of both exports together; its DPP, and its PPN, is the sum over every
\* row with that key, from either export and in any order, a not-a-number
\* amount counting as zero.
C5_Aggregation ==
    cpc \in {"aggregated", "merged", "varied", "done"} =>
        LET all == coretax_1 \o coretax_2
        IN  /\ \A i, j \in 1..Len(coretax_agg) :
                  coretax_agg[i].NO_VOUCHER = coretax_agg[j].NO_VOUCHER => i = j
            /\ {coretax_agg[i].NO_VOUCHER : i \in 1..Len(coretax_agg)}
                  = {all[i].NO_VOUCHER : i \in 1..Len(all)}
            /\ \A i \in 1..Len(coretax_agg) :
                  /\ coretax_agg[i].DPP = Num(TaxTotal(coretax_agg[i].NO_VOUCHER, "DPP"))
                  /\ coretax_agg[i].PPN = Num(TaxTotal(coretax_agg[i].NO_VOUCHER, "PPN"))

C5_Witness ==
    /\ cpc = "aggregated"
    /\ Len(coretax_1) = 1 /\ Len(coretax_2) = 2
    /\ coretax_2[1].NO_VOUCHER # coretax_2[2].NO_VOUCHER
    /\ \E i \in 1..Len(coretax_agg) :
          /\ coretax_agg[i].NO_VOUCHER = Str(<<"A", "1">>)
          /\ coretax_agg[i].DPP = Num(1023456)
          /\ coretax_agg[i].PPN = Num(100000)
    /\ \E i \in 1..Len(coretax_agg) :
          /\ coretax_agg[i].NO_VOUCHER = Str(<<"A", "2">>)
          /\ coretax_agg[i].DPP = Num(0)
          /\ coretax_agg[i].PPN = Num(-3000)

---------------------------------------------------------------------------
(* Properties of the report sheet (SpecSheet) *)

\* columns 1..18 of a report row
ReportLayout(row) ==
    <<row.AccountNo, row.AccountName, row.Date, row.VoucherCategory,
      row.VoucherNo, row.Description, row.DebitAmount, row.CreditAmount,
      row.Direction, row.Balance, NoneCell, row.NO_VOUCHER, row.NO_FP_MODIF,
      row.DPP, row.PPN, row.Difference, row.Customer, row.Keterangan>>

\* C9: once the n rows of the frame are written, rows 5..4+n of the sheet
\* hold them in order (ledger fields in columns 1-10, column 11 blank,
\* tax-side fields in columns 12-18), every cell of columns 1-18 in a row at
\* or beyond 5+n is empty whatever the template held, and rows 1-4 are as
\* in the template.
C9_ReportRows ==
    /\ \A r \in 1..(start_row - 1) :
          spc # "idle" => ws.cells[r] = template.cells[r]
    /\ spc = "written" =>
          /\ \A i \in 1..Len(frame) :
                \A c \in 1..LastCol :
                    ws.cells[start_row - 1 + i][c] = ReportLayout(frame[i])[c]
          /\ \A r \in (start_row + Len(frame))..GridRows :
                \A c \in 1..LastCol : ws.cells[r][c] = NoneCell

C9_Witness ==
    /\ spc = "written"
    /\ Len(frame) = 1
    /\ template.max_row = start_row + 1
    /\ template.cells[start_row][11] = Stale
    /\ template.cells[start_row + 1][LastCol] = Stale
    /\ ws.cells[start_row][1] = Str(<<"1">>)

---------------------------------------------------------------------------
(* Properties of the requests (Spec) *)

\* C7: a request that fails because a tax export lacks the key column or
\* because the template is missing ends with an error that names the failing
\* input, and has created or replaced no output file.
C7_NoOutputOnError ==
    \A r \in Reqs :
        pc[r] = <<"error", 0>> =>
            /\ out_path[r] = NoPath
            /\ \A t \in Stamps : outputs[t] # r
            /\ err[r] \in {ERR_UPLOAD_MISSING, ERR_KEY_1, ERR_KEY_2, ERR_TEMPLATE}
            /\ err[r] = ERR_KEY_1 => ~read[r][2].has_key
            /\ err[r] = ERR_KEY_2 => ~read[r][3].has_key
            /\ err[r] = ERR_TEMPLATE => ~template_exists

C7_Witness ==
    \E r1, r2 \in Reqs :
        /\ pc[r1] = <<"error", 0>>
        /\ err[r1] = ERR_KEY_2
        /\ pc[r2] = <<"done", 0>>
        /\ out_path[r2] # NoPath
        /\ outputs[out_path[r2][1]] = r2

\* C8: any two requests, in any interleaving and at any times, write to
\* distinct output file names.
C8_DistinctOutputNames ==
    \A r1, r2 \in Reqs :
        (r1 # r2 /\ out_path[r1] # NoPath /\ out_path[r2] # NoPath)
            => out_path[r1] # out_path[r2]

\* C10: in every interleaving each request's reconciliation reads the three
\* files that this request saved; no other request replaces or deletes them
\* before they are read.
C10_ReadsOwnInputs ==
    \A r \in Reqs :
        /\ err[r] # ERR_UPLOAD_MISSING
        /\ \A s \in Slots : read[r][s] # Absent => read[r][s].owner = r

====
